---- MODULE Spec2Model ----
(***************************************************************************)
(* Roadkill map: name normalisation, reference index, segment resolution   *)
(* and density aggregation of src/app.py, with the pre-cut variant of      *)
(* src/roadkill-map.py.                                                    *)
(*                                                                         *)
(* Text is a sequence of Unicode code points, so that width folding is the *)
(* code's fixed offset and key order is code-point order.  A value that is *)
(* not text (None, NaN) is a one-element tuple holding a negative tag.     *)
(***************************************************************************)
EXTENDS Integers, Sequences, FiniteSets, TLC

VARIABLES
    name, mode, pcN, out1, out2,           \* normaliser: input, mode, position, first and second result
    ic_locations, route_geometries,        \* Reference Index: NameIndex and RouteIndex
    row, pcR, res,                         \* resolver: section row, position, outcome of the row
    roadkill_df, filter_mode, selected,    \* session: loaded incidents, filter widgets
    filtered_df, map_df, max_density, view, \* session: what the last run of the script showed
    d_count, d_length, d_variant, per_km, pcD, \* density of one segment
    sections_gdf, map_gdf                  \* pre-cut variant: reference segments, merged segments

varsN == <<name, mode, pcN, out1, out2>>
varsIdx == <<ic_locations, route_geometries>>
varsR == <<row, pcR, res>>
varsS == <<roadkill_df, filter_mode, selected, filtered_df, map_df, max_density, view>>
varsD == <<d_count, d_length, d_variant, per_km, pcD>>
varsP == <<sections_gdf, map_gdf>>

vars == <<name, mode, pcN, out1, out2, ic_locations, route_geometries, row, pcR, res,
          roadkill_df, filter_mode, selected, filtered_df, map_df, max_density, view,
          d_count, d_length, d_variant, per_km, pcD, sections_gdf, map_gdf>>

-----------------------------------------------------------------------------
(* Code points the programs name. *)

SPACE == 32
IDEOGRAPHIC_SPACE == 12288
FULLWIDTH_FIRST == 65281
ASCII_FIRST == 33
FULLWIDTH_COUNT == 94
DOU == 36947
SEPARATOR == 12316

NoneValue == <<-1>>
NaNValue == <<-2>>
NonText == {NoneValue, NaNValue}

(* isinstance(name, str) *)
IsStr(v) == v \notin NonText

(* str.isspace() of one character, for the characters str.strip() removes *)
IsSpace(c) == c \in {9, 10, 11, 12, 13, 28, 29, 30, 31, SPACE, 133, 160, IDEOGRAPHIC_SPACE}

(* name.translate(str.maketrans({chr(0xFF01 + i): chr(0x21 + i) ...})) *)
FoldChar(c) ==
    IF c >= FULLWIDTH_FIRST /\ c < FULLWIDTH_FIRST + FULLWIDTH_COUNT
    THEN c - FULLWIDTH_FIRST + ASCII_FIRST
    ELSE c

Translate(s) == [i \in 1..Len(s) |-> FoldChar(s[i])]

(* name.replace('　', ' ') *)
ReplaceIdeographicSpace(s) ==
    [i \in 1..Len(s) |-> IF s[i] = IDEOGRAPHIC_SPACE THEN SPACE ELSE s[i]]

StartsWith(s, sub) ==
    /\ Len(sub) <= Len(s)
    /\ SubSeq(s, 1, Len(sub)) = sub

EndsWith(s, sub) ==
    /\ Len(sub) <= Len(s)
    /\ SubSeq(s, Len(s) - Len(sub) + 1, Len(s)) = sub

(* str.replace(sub, ''): leftmost, non-overlapping occurrences, one pass *)
RECURSIVE Remove(_, _)
Remove(s, sub) ==
    IF Len(s) < Len(sub) \/ sub = <<>> THEN s
    ELSE IF StartsWith(s, sub) THEN Remove(SubSeq(s, Len(sub) + 1, Len(s)), sub)
    ELSE <<Head(s)>> \o Remove(Tail(s), sub)

RECURSIVE LStrip(_)
LStrip(s) ==
    IF s # <<>> /\ IsSpace(Head(s)) THEN LStrip(Tail(s)) ELSE s

RECURSIVE RStrip(_)
RStrip(s) ==
    IF s # <<>> /\ IsSpace(s[Len(s)]) THEN RStrip(SubSeq(s, 1, Len(s) - 1)) ELSE s

(* str.strip() *)
Strip(s) == RStrip(LStrip(s))

(* suffixes = ['ＩＣ', 'IC', 'ＪＣＴ', 'JCT', 'ＳＩＣ', 'SIC', 'ＳＡ', 'SA', 'ＰＡ', 'PA', 'ＴＢ', 'TB'] *)
suffixes ==
    << <<65321, 65315>>, <<73, 67>>,
       <<65322, 65315, 65332>>, <<74, 67, 84>>,
       <<65331, 65321, 65315>>, <<83, 73, 67>>,
       <<65331, 65313>>, <<83, 65>>,
       <<65328, 65313>>, <<80, 65>>,
       <<65332, 65314>>, <<84, 66>> >>

(* for suffix in suffixes: name = name.replace(suffix, '') *)
RECURSIVE RemoveSuffixes(_, _)
RemoveSuffixes(s, k) ==
    IF k > Len(suffixes) THEN s
    ELSE RemoveSuffixes(Remove(s, suffixes[k]), k + 1)

(* the route name kept as it is *)
StripRoute_Never(s) == s

(* if name.endswith('道'): name = name.replace('道', '') *)
StripRoute(s) == IF EndsWith(s, <<DOU>>) THEN Remove(s, <<DOU>>) ELSE s

(* the guard left out *)
GuardText_Unchecked(v, r) == r

(* the guard of normalize_name: a value that is not text gives "" *)
GuardText(v, r) == IF ~IsStr(v) THEN <<>> ELSE r

(* normalize_name(name, is_route) of app.py and roadkill_app_simple.py *)
normalize_name(v, is_route) ==
    GuardText(v,
        LET folded == ReplaceIdeographicSpace(Translate(v))
        IN  IF is_route THEN Strip(StripRoute(folded))
            ELSE Strip(RemoveSuffixes(folded, 1)))

(* normalize_name(name) of roadkill-map.py: fold and trim only *)
normalize_name_precut(v) ==
    GuardText(v, Strip(ReplaceIdeographicSpace(Translate(v))))

Modes == {"ROUTE", "PLACE", "PRECUT"}

normalize(v, m) ==
    CASE m = "ROUTE" -> normalize_name(v, TRUE)
      [] m = "PLACE" -> normalize_name(v, FALSE)
      [] m = "PRECUT" -> normalize_name_precut(v)

-----------------------------------------------------------------------------
(* Geometry.  Every point and line of the model lies on one meridian: a    *)
(* point is (x, y) with y its latitude in grid steps, a line is the closed *)
(* stretch [lo, hi] of the meridian, a merged route geometry is a set of   *)
(* stretches.  One grid step is 1/74 degree, which the code's conversion   *)
(* takes for 1500 m.  On a meridian the great-circle distance is           *)
(* proportional to the latitude difference, so haversine is given in grid  *)
(* steps.                                                                  *)

DISTANCE_THRESHOLD_M == 3000
DEGREE_TO_M == 111000
GridPerDegree == DEGREE_TO_M \div 1500

Point(y) == [x |-> 0, y |-> y]

Abs(n) == IF n < 0 THEN -n ELSE n

MinOf(S) == CHOOSE m \in S : \A n \in S : m <= n

(* shapely distance of a point to one stretch, in grid steps *)
DistanceToLine(p, l) ==
    IF p.y < l.lo THEN l.lo - p.y
    ELSE IF p.y > l.hi THEN p.y - l.hi
    ELSE 0

(* p.distance(target_route_geom), in grid steps *)
Distance(p, geom) == MinOf({DistanceToLine(p, l) : l \in geom})

(* the threshold taken as inclusive *)
WithinThreshold_Inclusive(p, geom) ==
    Distance(p, geom) * DEGREE_TO_M <= DISTANCE_THRESHOLD_M * GridPerDegree

(* p.distance(target_route_geom) * 111000 < DISTANCE_THRESHOLD_M *)
WithinThreshold(p, geom) ==
    Distance(p, geom) * DEGREE_TO_M < DISTANCE_THRESHOLD_M * GridPerDegree

(* haversine((start.y, start.x), (end.y, end.x)) on one meridian *)
haversine(p, q) == Abs(p.y - q.y)

-----------------------------------------------------------------------------
(* Reference index (load_data). *)

(* code-point order of two texts, the order of Python str *)
RECURSIVE LexLess(_, _)
LexLess(a, b) ==
    IF b = <<>> THEN FALSE
    ELSE IF a = <<>> THEN TRUE
    ELSE IF Head(a) # Head(b) THEN Head(a) < Head(b)
    ELSE LexLess(Tail(a), Tail(b))

(* the keys of a groupby, which pandas sorts ascending *)
RECURSIVE SortedKeys(_)
SortedKeys(S) ==
    IF S = {} THEN <<>>
    ELSE LET least == CHOOSE k \in S : \A o \in S \ {k} : LexLess(k, o)
         IN  <<least>> \o SortedKeys(S \ {least})

Range(f) == {f[i] : i \in DOMAIN f}

(* ic_gdf.groupby('ic_name_norm')['geometry'].apply(list).to_dict() *)
BuildIcLocations(ic_rows) ==
    LET norm(i) == normalize_name(ic_rows[i].name, FALSE)
        keys == {norm(i) : i \in DOMAIN ic_rows}
    IN  [k \in keys |->
            LET idx == SelectSeq([i \in DOMAIN ic_rows |-> i], LAMBDA i : norm(i) = k)
            IN  [j \in DOMAIN idx |-> ic_rows[idx[j]].geometry]]

(* the group keys in the order of their first row, as groupby(sort=False) gives them *)
RECURSIVE GroupByKeys_Unsorted(_)
GroupByKeys_Unsorted(col) ==
    IF col = <<>> THEN <<>>
    ELSE <<Head(col)>> \o GroupByKeys_Unsorted(SelectSeq(Tail(col), LAMBDA x : x # Head(col)))

(* the group keys of groupby(col), sort=True by default: ascending, whatever the row order *)
GroupByKeys(col) == SortedKeys(Range(col))

(* sections_gdf['route_name_norm'], row by row *)
RouteNameNorm(route_rows) ==
    [n \in DOMAIN route_rows |-> normalize_name(route_rows[n].name, TRUE)]

(* ['geometry'].apply(union_all).to_dict(): one item per group key, in the order of *)
(* the keys, with the union of the geometries of the rows of the group              *)
GroupRouteGeometries(route_rows, col, keys) ==
    [i \in DOMAIN keys |->
        [key |-> keys[i],
         geom |-> {route_rows[n].geometry : n \in {q \in DOMAIN col : col[q] = keys[i]}}]]

(* route_geometries of load_data: the items of the dict in insertion order *)
BuildRouteGeometries(route_rows) ==
    GroupRouteGeometries(route_rows, RouteNameNorm(route_rows),
                         GroupByKeys(RouteNameNorm(route_rows)))

-----------------------------------------------------------------------------
(* Segment resolver (get_map_data). *)

(* norm_csv_name in shp_name *)
Contains(s, sub) ==
    \E i \in 0..(Len(s) - Len(sub)) : SubSeq(s, i + 1, i + Len(sub)) = sub

(* list(_route_geometries.keys()) *)
RouteKeys(rg) == [i \in DOMAIN rg |-> rg[i].key]

(* for shp_name in shp_routes_raw: if norm_csv_name in shp_name: ...; break *)
FirstMatch(norm_csv_name, shp_routes) ==
    LET hits == {i \in DOMAIN shp_routes : Contains(shp_routes[i], norm_csv_name)}
    IN  IF hits = {} THEN NoneValue ELSE shp_routes[MinOf(hits)]

(* route_name_map.get(csv_route_name) *)
RouteNameMapGet(csv_name, rg) ==
    FirstMatch(normalize_name(csv_name, TRUE), RouteKeys(rg))

(* truth value of official_route_name: None and "" are false *)
Truthy(v) == v # NoneValue /\ v # <<>>

(* _route_geometries.get(official_route_name) *)
RouteGeometryGet(rg, key) ==
    LET hits == {i \in DOMAIN rg : rg[i].key = key}
    IN  IF hits = {} THEN {} ELSE rg[MinOf(hits)].geom

(* _ic_locations.get(name, []) *)
IcLocationsGet(ic, k) == IF k \in DOMAIN ic THEN ic[k] ELSE <<>>

(* every candidate kept, near the route or not *)
ValidCandidates_Unfiltered(cands, geom) == cands

(* [p for p in candidates if p.distance(geom) * 111000 < DISTANCE_THRESHOLD_M] *)
ValidCandidates(cands, geom) == SelectSeq(cands, LAMBDA p : WithinThreshold(p, geom))

(* product(valid_starts, valid_ends): the start varies slowest *)
Product(starts, ends) ==
    [k \in 1..(Len(starts) * Len(ends)) |->
        <<starts[((k - 1) \div Len(ends)) + 1], ends[((k - 1) % Len(ends)) + 1]>>]

(* the test dist > 0 left out *)
Improves_AnyDistance(dist, min_dist) == min_dist = -1 \/ dist < min_dist

(* a later pair at the same distance taken *)
Improves_OnTies(dist, min_dist) == dist > 0 /\ (min_dist = -1 \/ dist <= min_dist)

(* if dist > 0 and dist < min_dist *)
Improves(dist, min_dist) == dist > 0 /\ (min_dist = -1 \/ dist < min_dist)

(* the loop over product(...): min_dist = -1 stands for float('inf') *)
RECURSIVE BestPairFrom(_, _, _, _)
BestPairFrom(pairs, k, min_dist, best_pair) ==
    IF k > Len(pairs) THEN best_pair
    ELSE LET dist == haversine(pairs[k][1], pairs[k][2])
         IN  IF Improves(dist, min_dist)
             THEN BestPairFrom(pairs, k + 1, dist, pairs[k])
             ELSE BestPairFrom(pairs, k + 1, min_dist, best_pair)

BestPair(starts, ends) == BestPairFrom(Product(starts, ends), 1, -1, NoneValue)

(* One pass of the loop body of get_map_data for a row of section_counts. *)
(* at names the statement that left the body: one of the four `continue`, *)
(* the end of the body without a pair, or the append.                      *)
ResolveRow(r, ic, rg) ==
    LET official == RouteNameMapGet(r.route, rg)
        geom == RouteGeometryGet(rg, official)
        start_candidates == IcLocationsGet(ic, r.start_norm)
        end_candidates == IcLocationsGet(ic, r.end_norm)
        valid_starts == ValidCandidates(start_candidates, geom)
        valid_ends == ValidCandidates(end_candidates, geom)
        best_pair == BestPair(valid_starts, valid_ends)
        out(at, vs, ve, bp) ==
            [at |-> at, official |-> official, valid_starts |-> vs, valid_ends |-> ve,
             best_pair |-> bp]
    IN  IF ~Truthy(official) THEN out("no_route", <<>>, <<>>, NoneValue)
        ELSE IF geom = {} THEN out("no_geometry", <<>>, <<>>, NoneValue)
        ELSE IF start_candidates = <<>> \/ end_candidates = <<>>
             THEN out("no_candidates", <<>>, <<>>, NoneValue)
        ELSE IF valid_starts = <<>> \/ valid_ends = <<>>
             THEN out("no_valid", valid_starts, valid_ends, NoneValue)
        ELSE IF best_pair = NoneValue THEN out("no_pair", valid_starts, valid_ends, NoneValue)
        ELSE out("appended", valid_starts, valid_ends, best_pair)

-----------------------------------------------------------------------------
(* Section labels. *)

(* str.split('〜'): the parts of a label, in order *)
RECURSIVE SplitFrom(_, _)
SplitFrom(s, part) ==
    IF s = <<>> THEN <<part>>
    ELSE IF Head(s) = SEPARATOR THEN <<part>> \o SplitFrom(Tail(s), <<>>)
    ELSE SplitFrom(Tail(s), Append(part, Head(s)))

Split(s) == SplitFrom(s, <<>>)

(* a missing part taken from the first part *)
SplitColumn_Repeat(s, c) == IF c + 1 <= Len(Split(s)) THEN Split(s)[c + 1] ELSE Split(s)[1]

(* split_sections[c] of one row: None where the row has no such part *)
SplitColumn(s, c) == IF c + 1 <= Len(Split(s)) THEN Split(s)[c + 1] ELSE NoneValue

-----------------------------------------------------------------------------
(* Aggregation and density.  A length is a whole number of km or NaN; a   *)
(* density is the exact quotient num/den in lowest terms, and the         *)
(* quotient by zero is kept as a value with den = 0.  In a numeric column *)
(* NaN is the number NaN below, which is no length, month or hour of the  *)
(* model; in a column of categories it is the string "nan".               *)

NaN == -1000

RECURSIVE Gcd(_, _)
Gcd(a, b) == IF b = 0 THEN a ELSE Gcd(b, a % b)

(* a / b of two numbers *)
TrueDiv(a, b) ==
    IF b = 0 THEN [num |-> a, den |-> 0]
    ELSE LET g == Gcd(Abs(a), Abs(b))
             s == IF b < 0 THEN -1 ELSE 1
         IN  IF a = 0 THEN [num |-> 0, den |-> 1]
             ELSE [num |-> s * (a \div g), den |-> s * (b \div g)]

Zero == [num |-> 0, den |-> 1]

(* pd.notna(x) *)
NotNa(x) == x # NaN

(* a length of zero taken as positive *)
Positive_OrZero(x) == NotNa(x) /\ x >= 0

(* x > 0 for a float x: every comparison with NaN is false *)
Positive(x) == NotNa(x) /\ x > 0

(* app.py: row['件数'] / row['区間長_km'] if row['区間長_km'] > 0 else 0 *)
Density(count, length_km) ==
    IF Positive(length_km) THEN TrueDiv(count, length_km) ELSE Zero

(* roadkill-map.py: ... if pd.notna(row['区間長_km']) and row['区間長_km'] > 0 else 0 *)
DensityPrecut(count, length_km) ==
    IF NotNa(length_km) /\ Positive(length_km) THEN TrueDiv(count, length_km) ELSE Zero

(* a <= b for two densities with positive denominators *)
DensityLeq(a, b) == a.num * b.den <= b.num * a.den

(* the smallest density taken for the largest *)
MaxDensity_Min(ds) == CHOOSE m \in ds : \A d \in ds : DensityLeq(m, d)

(* map_df['件数_per_km'].max() *)
MaxDensity(ds) == CHOOSE m \in ds : \A d \in ds : DensityLeq(d, m)

(* dropna(subset=required_cols) and dropna(subset=numeric_cols) *)
Complete(r) ==
    /\ r.route \notin NonText
    /\ r.section \notin NonText
    /\ \A f \in {"direction", "weather", "animal", "day"} : r[f] # "nan"
    /\ \A f \in {"month", "hour", "length_km"} : NotNa(r[f])

DropNa(csv_rows) == SelectSeq(csv_rows, Complete)

(* the order of the keys of groupby([道路名, 区間]) *)
KeyLess(a, b) == LexLess(a[1], b[1]) \/ (a[1] = b[1] /\ LexLess(a[2], b[2]))

RECURSIVE SortedPairs(_)
SortedPairs(S) ==
    IF S = {} THEN <<>>
    ELSE LET least == CHOOSE k \in S : \A o \in S \ {k} : KeyLess(k, o)
         IN  <<least>> \o SortedPairs(S \ {least})

KeyOf(r) == <<r.route, r.section>>

(* the rows of one group, in the order of the frame *)
Group(df, key) == SelectSeq(df, LAMBDA r : KeyOf(r) = key)

(* the group counted as one record *)
GroupSize_One(g) == 1

(* '件数': ('区間', 'size') *)
GroupSize(g) == Len(g)

(* CSV_LENGTH_COL: (CSV_LENGTH_COL, 'first') *)
GroupFirstLength(g) == g[1].length_km

(* section_counts: filtered_df.groupby(key_cols).agg(...).reset_index() with the split columns *)
SectionCounts(df) ==
    LET keys == SortedPairs({KeyOf(df[i]) : i \in DOMAIN df})
        has_column_1 == \E i \in DOMAIN keys : Len(Split(keys[i][2])) >= 2
    IN  [i \in DOMAIN keys |->
            [route |-> keys[i][1], section |-> keys[i][2],
             count |-> GroupSize(Group(df, keys[i])),
             length_km |-> GroupFirstLength(Group(df, keys[i])),
             start_norm |-> normalize_name(SplitColumn(keys[i][2], 0), FALSE),
             end_norm |-> IF has_column_1
                          THEN normalize_name(SplitColumn(keys[i][2], 1), FALSE)
                          ELSE <<>>]]

(* the loop left at the first row that fails *)
ContinueLoop_Break(rest) == <<>>

(* continue: the loop goes on with the rows after a row that fails *)
ContinueLoop(rest) == rest

(* get_map_data: the rows appended to map_data, in the order of section_counts *)
RECURSIVE GetMapDataFrom(_, _, _, _)
GetMapDataFrom(sc, k, ic, rg) ==
    IF k > Len(sc) THEN <<>>
    ELSE LET r == ResolveRow(sc[k], ic, rg)
             rest == GetMapDataFrom(sc, k + 1, ic, rg)
         IN  IF r.at = "appended"
             THEN <<[route |-> sc[k].route, section |-> sc[k].section,
                     count |-> sc[k].count, length_km |-> sc[k].length_km,
                     start |-> r.best_pair[1], end |-> r.best_pair[2]]>> \o rest
             ELSE ContinueLoop(rest)

get_map_data(sc, ic, rg) == GetMapDataFrom(sc, 1, ic, rg)

(* the row gets as far as the two lookups in _ic_locations *)
ReachesLookup(r, rg) ==
    /\ Truthy(RouteNameMapGet(r.route, rg))
    /\ RouteGeometryGet(rg, RouteNameMapGet(r.route, rg)) # {}

(* the names get_map_data looks up in _ic_locations for the rows of section_counts *)
LookedUp(sc, rg) ==
    UNION {{sc[k].start_norm, sc[k].end_norm} : k \in {n \in DOMAIN sc : ReachesLookup(sc[n], rg)}}

(* lookups that enter a missing name with an empty list, as setdefault would *)
IcLocationsAfterGet_SetDefault(ic, names) ==
    [x \in DOMAIN ic \cup names |-> IF x \in DOMAIN ic THEN ic[x] ELSE <<>>]

(* _ic_locations after _ic_locations.get(k, []) for the names k: dict.get enters nothing *)
IcLocationsAfterGet(ic, names) == ic

(* _route_geometries after route_name_map is built from its keys() and after the .get(key) *)
RouteGeometriesAfterGet(rg, sc) == rg

(* the two dictionaries after get_map_data has gone through section_counts *)
IndexAfter(sc, ic, rg) ==
    [ic_locations |-> IcLocationsAfterGet(ic, LookedUp(sc, rg)),
     route_geometries |-> RouteGeometriesAfterGet(rg, sc)]

(* map_df['件数_per_km'] = map_df.apply(...) *)
WithDensity(m) ==
    [i \in DOMAIN m |->
        [route |-> m[i].route, section |-> m[i].section, count |-> m[i].count,
         length_km |-> m[i].length_km, start |-> m[i].start, end |-> m[i].end,
         per_km |-> Density(m[i].count, m[i].length_km)]]

-----------------------------------------------------------------------------
(* One run of the script of app.py for a setting of the filter widgets.   *)
(* In the single mode a selection is <<>> for すべて or <<v>> for the      *)
(* option v; in the multi mode it is the set of the chosen options.        *)

Attrs == {"month", "hour", "day", "weather", "animal"}

NumDays == 1

(* day_of_week_options = ['月', '火', '水', '木', '金', '土', '日'] *)
day_of_week_options ==
    SubSeq(<<"getsu", "ka", "sui", "moku", "kin", "do", "nichi">>, 1, NumDays)

(* month_options, hour_options, weather_options, animal_options: the values in the data *)
Options(df, a) ==
    IF a = "day" THEN Range(day_of_week_options)
    ELSE {df[i][a] : i \in DOMAIN df}

(* the selections of freshly drawn widgets *)
DefaultSelection(df, m) ==
    IF m = "single" THEN [a \in Attrs |-> <<>>]
    ELSE [a \in Attrs |-> Options(df, a)]

(* if selected != 'すべて': filtered_df[col] == selected *)
KeepSingle(sel, r) == \A a \in Attrs : sel[a] = <<>> \/ sel[a] = <<r[a]>>

(* if selected: filtered_df[col].isin(selected) *)
KeepMulti(sel, r) == \A a \in Attrs : sel[a] = {} \/ r[a] \in sel[a]

ApplyFilter(df, m, sel) ==
    SelectSeq(df, LAMBDA r : IF m = "single" THEN KeepSingle(sel, r) ELSE KeepMulti(sel, r))

(* the max() of an empty column: NaN, kept as the quotient 0/0 *)
NaNDensity == [num |-> 0, den |-> 0]

(* all_counts of the branch for an empty filtered_df, and its largest density *)
OverallMaxDensity(df) ==
    LET all_counts == SectionCounts(df)
    IN  IF all_counts = <<>> THEN NaNDensity
        ELSE MaxDensity({Density(all_counts[i].count, all_counts[i].length_km) : i \in DOMAIN all_counts})

(* the main part of the script: what it shows for the current filter *)
ScriptRun(df, ic, rg, m, sel) ==
    LET filtered == ApplyFilter(df, m, sel)
        mapped == WithDensity(get_map_data(SectionCounts(filtered), ic, rg))
        index == IndexAfter(SectionCounts(filtered), ic, rg)
    IN  IF filtered # <<>>
        THEN IF mapped # <<>>
             THEN [filtered_df |-> filtered, map_df |-> mapped, view |-> "map",
                   max_density |-> MaxDensity({mapped[i].per_km : i \in DOMAIN mapped}),
                   index |-> index]
             ELSE [filtered_df |-> filtered, map_df |-> mapped, view |-> "no_segments",
                   max_density |-> NoneValue, index |-> index]
        ELSE [filtered_df |-> filtered, map_df |-> <<>>, view |-> "no_data",
              max_density |-> OverallMaxDensity(df),
              index |-> [ic_locations |-> ic, route_geometries |-> rg]]

-----------------------------------------------------------------------------
(* The pre-cut variant, roadkill-map.py: the route reference is cut into  *)
(* segments that name their two interchanges, and an incident is          *)
(* attributed to a segment by the text key of its section label.  The     *)
(* geometry of a segment is its vertex sequence, or None where the        *)
(* reference row has none.                                                 *)

(* dropna(subset=required_cols) and dropna(subset=numeric_cols) of roadkill-map.py *)
CompletePrecut(r) ==
    /\ r.official \notin NonText
    /\ r.route \notin NonText
    /\ r.section \notin NonText
    /\ r.direction # "nan"
    /\ \A f \in {"month", "hour", "length_km"} : NotNa(r[f])

(* roadkill_df['section_norm'] = roadkill_df[CSV_SECTION_NAME_COL].apply(normalize_name) *)
SectionNorm(section) == normalize_name_precut(section)

(* load_data of roadkill-map.py, the incidents: the complete rows, each with its section_norm *)
LoadIncidents(csv_rows) ==
    LET kept == SelectSeq(csv_rows, CompletePrecut)
    IN  [i \in DOMAIN kept |->
            [official |-> kept[i].official, route |-> kept[i].route,
             section |-> kept[i].section, direction |-> kept[i].direction,
             weather |-> kept[i].weather, animal |-> kept[i].animal,
             month |-> kept[i].month, hour |-> kept[i].hour, day |-> kept[i].day,
             length_km |-> kept[i].length_km,
             section_norm |-> SectionNorm(kept[i].section)]]

(* load_data of roadkill-map.py, the reference segments with their two keys *)
LoadSections(shp_rows) ==
    [i \in DOMAIN shp_rows |->
        LET start_norm == normalize_name_precut(shp_rows[i].start_IC)
            end_norm == normalize_name_precut(shp_rows[i].end_IC)
        IN  [start_IC |-> shp_rows[i].start_IC, end_IC |-> shp_rows[i].end_IC,
             geometry |-> shp_rows[i].geometry,
             start_norm |-> start_norm, end_norm |-> end_norm,
             section_norm_key_1 |-> start_norm \o <<SEPARATOR>> \o end_norm,
             section_norm_key_2 |-> end_norm \o <<SEPARATOR>> \o start_norm]]

(* the rows of one group of groupby('section_norm'), in the order of the frame *)
GroupPrecut(df, key) == SelectSeq(df, LAMBDA r : r.section_norm = key)

(* section_counts of roadkill-map.py; no row at all for an empty filtered_df *)
SectionCountsPrecut(df) ==
    LET keys == SortedKeys({df[i].section_norm : i \in DOMAIN df})
    IN  [i \in DOMAIN keys |->
            [section_norm |-> keys[i],
             count |-> GroupSize(GroupPrecut(df, keys[i])),
             length_km |-> GroupFirstLength(GroupPrecut(df, keys[i])),
             route |-> GroupPrecut(df, keys[i])[1].route]]

(* the right-hand columns of a left row that found no partner *)
Unmatched == [section_norm |-> NaNValue, count |-> NaN, length_km |-> NaN, route |-> NaNValue]

(* pd.merge(all_sections_map, section_counts, left_on=key, right_on='section_norm', *)
(* how='left'): the right-hand columns, row by row of the left frame; the keys of    *)
(* section_counts are distinct, so a left row has one partner at most                *)
MergeLeft(left, sc, key) ==
    [i \in DOMAIN left |->
        IF \E k \in DOMAIN sc : sc[k].section_norm = left[i][key]
        THEN sc[CHOOSE k \in DOMAIN sc : sc[k].section_norm = left[i][key]]
        ELSE Unmatched]

(* the second frame taken wherever it has a value *)
FillNa_Second(a, b) == IF b = NaN THEN a ELSE b

(* a.fillna(b) of a numeric column, for one row *)
FillNa(a, b) == IF a = NaN THEN b ELSE a

(* a.fillna(b) of the display name, for one row *)
FillNaText(a, b) == IF a = NaNValue THEN b ELSE a

(* only the segments that found incidents kept *)
HasGeometry_AndIncidents(r) == r.geometry # NoneValue /\ r.count > 0

(* map_gdf.dropna(subset=['geometry']) *)
HasGeometry(r) == r.geometry # NoneValue

(* map_gdf of lines 170-176 *)
MergedSegments(sections, sc) ==
    LET map_gdf_1 == MergeLeft(sections, sc, "section_norm_key_1")
        map_gdf_2 == MergeLeft(sections, sc, "section_norm_key_2")
        merged ==
            [i \in DOMAIN sections |->
                [start_IC |-> sections[i].start_IC, end_IC |-> sections[i].end_IC,
                 geometry |-> sections[i].geometry,
                 section_norm_key_1 |-> sections[i].section_norm_key_1,
                 section_norm_key_2 |-> sections[i].section_norm_key_2,
                 count |-> FillNa(FillNa(map_gdf_1[i].count, map_gdf_2[i].count), 0),
                 length_km |-> FillNa(map_gdf_1[i].length_km, map_gdf_2[i].length_km),
                 route |-> FillNaText(map_gdf_1[i].route, map_gdf_2[i].route)]]
    IN  SelectSeq(merged, HasGeometry)

(* map_gdf['件数_per_km'] = map_gdf.apply(...) of line 209 *)
WithDensityPrecut(m) ==
    [i \in DOMAIN m |->
        [start_IC |-> m[i].start_IC, end_IC |-> m[i].end_IC, geometry |-> m[i].geometry,
         section_norm_key_1 |-> m[i].section_norm_key_1,
         section_norm_key_2 |-> m[i].section_norm_key_2,
         count |-> m[i].count, length_km |-> m[i].length_km, route |-> m[i].route,
         per_km |-> DensityPrecut(m[i].count, m[i].length_km)]]

(* weather_options and animal_options leave NaN out *)
OptionsPrecut(df, a) ==
    IF a \in {"weather", "animal"} THEN Options(df, a) \ {"nan"} ELSE Options(df, a)

DefaultSelectionPrecut(df, m) ==
    IF m = "single" THEN [a \in Attrs |-> <<>>]
    ELSE [a \in Attrs |-> OptionsPrecut(df, a)]

(* the main part of the script of roadkill-map.py for the current filter *)
ScriptRunPrecut(df, sections, m, sel) ==
    LET filtered == ApplyFilter(df, m, sel)
        merged == WithDensityPrecut(MergedSegments(sections, SectionCountsPrecut(filtered)))
    IN  IF merged # <<>>
        THEN [filtered_df |-> filtered, map_gdf |-> merged, view |-> "map",
              max_density |-> MaxDensity({merged[i].per_km : i \in DOMAIN merged})]
        ELSE [filtered_df |-> filtered, map_gdf |-> merged, view |-> "failed",
              max_density |-> NoneValue]

-----------------------------------------------------------------------------
(* Names and reference data of the model. *)

IC == <<73, 67>>
FullwidthIC == <<65321, 65315>>
Mito == <<27700, 25144>>
Naka == <<37027, 29634>>
Tohoku == <<26481, 21271>>
Joban == <<24120, 30928>>
Doto == <<DOU, 26481>>
Chuo == <<20013, 22830>>
Jidoshado == <<33258, 21205, 36554, DOU>>

MaxCoord == 3
MaxIcRows == 3
MaxRouteRows == 2

Coords == 0..MaxCoord

(* rows of the interchange reference: a raw name and a point *)
IcNames == {Mito \o IC, Naka \o FullwidthIC}
IcRowPool == [name : IcNames, geometry : {Point(y) : y \in Coords}]

RECURSIVE SeqsUpTo(_, _)
SeqsUpTo(S, n) ==
    IF n = 0 THEN {<<>>}
    ELSE LET shorter == SeqsUpTo(S, n - 1)
         IN  shorter \cup {Append(s, e) : s \in {t \in shorter : Len(t) = n - 1}, e \in S}

IcDatasets == SeqsUpTo(IcRowPool, MaxIcRows)

(* rows of the route reference: a raw name (None for a null attribute) and a line *)
Line(lo, hi) == [lo |-> lo, hi |-> hi]
RouteRowPool ==
    { [name |-> Tohoku \o Jidoshado, geometry |-> Line(0, 1)],
      [name |-> Tohoku \o Chuo \o Jidoshado, geometry |-> Line(2, 3)],
      [name |-> Doto \o Jidoshado, geometry |-> Line(0, 1)],
      [name |-> NoneValue, geometry |-> Line(0, 1)] }

(* the route shapefiles of the model: at most MaxRouteRows rows of the pool, in any order *)
RouteDatasets ==
    {D \in SeqsUpTo(RouteRowPool, MaxRouteRows) :
        \A i, j \in DOMAIN D : i # j => D[i] # D[j]}

(* the route references under which the candidates of a section are tried *)
PairRouteDatasets ==
    { <<[name |-> Tohoku \o Jidoshado, geometry |-> Line(0, 1)]>>,
      <<[name |-> Tohoku \o Jidoshado, geometry |-> Line(0, 1)],
        [name |-> Tohoku \o Chuo \o Jidoshado, geometry |-> Line(2, 3)]>> }

(* incident route texts and section labels *)
CsvRoutes == {Tohoku \o <<DOU>>, Joban \o <<DOU>>, Doto \o <<DOU>>, <<IDEOGRAPHIC_SPACE>>}
CsvSections ==
    { Mito \o IC \o <<SEPARATOR>> \o Naka \o IC,
      Naka \o FullwidthIC \o <<SEPARATOR>> \o Mito \o FullwidthIC,
      Mito \o IC \o <<SEPARATOR>> \o Mito \o IC,
      Mito \o IC }

(* a row of section_counts with its 始点_norm and 終点_norm *)
SectionRow(route, section) ==
    [route |-> route, section |-> section,
     start_norm |-> normalize_name(SplitColumn(section, 0), FALSE),
     end_norm |-> normalize_name(SplitColumn(section, 1), FALSE)]

(* rows of the incident CSV, in file order; NaN marks an empty cell *)
Hare == "hare"
Ame == "ame"

CsvRow(route, section, weather, month, length_km) ==
    [route |-> route, section |-> section, direction |-> "nobori", weather |-> weather,
     animal |-> "tanuki", month |-> month, hour |-> 0, day |-> "getsu",
     length_km |-> length_km]

MitoNaka == Mito \o IC \o <<SEPARATOR>> \o Naka \o IC
MitoNakaFullwidth == Mito \o FullwidthIC \o <<SEPARATOR>> \o Naka \o FullwidthIC
NakaMito == Naka \o IC \o <<SEPARATOR>> \o Mito \o IC

CsvPool ==
    << CsvRow(Tohoku \o <<DOU>>, MitoNaka, Hare, 4, 2),
       CsvRow(Tohoku \o <<DOU>>, MitoNaka, Ame, 4, 3),
       CsvRow(Tohoku \o <<DOU>>, MitoNakaFullwidth, Hare, 4, 2),
       CsvRow(Tohoku \o <<DOU>>, NakaMito, Hare, 5, 0),
       CsvRow(Joban \o <<DOU>>, MitoNaka, Hare, 4, 2),
       CsvRow(Tohoku \o <<DOU>>, Mito \o IC, Ame, 4, 2),
       CsvRow(Tohoku \o <<DOU>>, MitoNaka, Hare, 4, NaN) >>

MaxRecords == 2

RECURSIVE Pick(_, _, _)
Pick(pool, I, k) ==
    IF k > Len(pool) THEN <<>>
    ELSE IF k \in I THEN <<pool[k]>> \o Pick(pool, I, k + 1)
    ELSE Pick(pool, I, k + 1)

(* the CSV files of the model: at most MaxRecords rows of the pool, in its order *)
CsvDatasets ==
    {Pick(CsvPool, I, 1) : I \in {J \in SUBSET DOMAIN CsvPool : Cardinality(J) <= MaxRecords}}

(* the reference data of the session *)
SessionIcRows ==
    << [name |-> Mito \o IC, geometry |-> Point(0)],
       [name |-> Naka \o FullwidthIC, geometry |-> Point(0)],
       [name |-> Naka \o IC, geometry |-> Point(2)] >>

SessionRouteRows == <<[name |-> Tohoku \o Jidoshado, geometry |-> Line(0, 1)]>>

-----------------------------------------------------------------------------
(* Resolving one section row against a reference index. *)

IdleD ==
    /\ d_count = 0
    /\ d_length = 0
    /\ d_variant = "app"
    /\ per_km = Zero
    /\ pcD = "idle"

IdleS ==
    /\ roadkill_df = <<>>
    /\ filter_mode = "single"
    /\ selected = DefaultSelection(<<>>, "single")
    /\ filtered_df = <<>>
    /\ map_df = <<>>
    /\ max_density = NoneValue
    /\ view = "idle"

IdleP ==
    /\ sections_gdf = <<>>
    /\ map_gdf = <<>>

IdleN ==
    /\ name = <<>>
    /\ mode = "PLACE"
    /\ pcN = "idle"
    /\ out1 = <<>>
    /\ out2 = <<>>

IdleR ==
    /\ row = SectionRow(<<>>, <<>>)
    /\ pcR = "idle"
    /\ res = NoneValue

IdleIdx ==
    /\ ic_locations = BuildIcLocations(<<>>)
    /\ route_geometries = BuildRouteGeometries(<<>>)

(* the candidates vary: every interchange reference, under two route references *)
InitR ==
    /\ IdleP
    /\ IdleN
    /\ IdleS
    /\ IdleD
    /\ \E ic_rows \in IcDatasets : ic_locations = BuildIcLocations(ic_rows)
    /\ \E route_rows \in PairRouteDatasets : route_geometries = BuildRouteGeometries(route_rows)
    /\ \E section \in CsvSections : row = SectionRow(Tohoku \o <<DOU>>, section)
    /\ pcR = "row"
    /\ res = NoneValue

(* the routes vary: every route reference and route text, under one interchange reference *)
InitRoute ==
    /\ IdleP
    /\ IdleN
    /\ IdleS
    /\ IdleD
    /\ ic_locations = BuildIcLocations(SessionIcRows)
    /\ \E route_rows \in RouteDatasets : route_geometries = BuildRouteGeometries(route_rows)
    /\ \E route \in CsvRoutes, section \in CsvSections : row = SectionRow(route, section)
    /\ pcR = "row"
    /\ res = NoneValue

Resolve ==
    /\ pcR = "row"
    /\ res' = ResolveRow(row, ic_locations, route_geometries)
    /\ pcR' = "done"
    /\ UNCHANGED <<row, varsN, varsIdx, varsS, varsD, varsP>>

NextR == Resolve

SpecR == InitR /\ [][NextR]_vars

SpecRoute == InitRoute /\ [][NextR]_vars

-----------------------------------------------------------------------------
(* A session of app.py: the data are loaded once, then every change of a  *)
(* filter widget runs the script again.                                    *)

Shown(run) ==
    /\ filtered_df' = run.filtered_df
    /\ map_df' = run.map_df
    /\ max_density' = run.max_density
    /\ view' = run.view
    /\ ic_locations' = run.index.ic_locations
    /\ route_geometries' = run.index.route_geometries

Init ==
    /\ IdleP
    /\ IdleN
    /\ IdleR
    /\ IdleD
    /\ \E csv_rows \in CsvDatasets : roadkill_df = DropNa(csv_rows)
    /\ filter_mode = "single"
    /\ selected = DefaultSelection(roadkill_df, "single")
    /\ \E run \in {ScriptRun(roadkill_df, BuildIcLocations(SessionIcRows),
                             BuildRouteGeometries(SessionRouteRows), filter_mode, selected)} :
           /\ filtered_df = run.filtered_df
           /\ map_df = run.map_df
           /\ max_density = run.max_density
           /\ view = run.view
           /\ ic_locations = run.index.ic_locations
           /\ route_geometries = run.index.route_geometries

(* st.sidebar.radio("フィルタの選択方法", ...) changed *)
SetFilterMode(m) ==
    /\ view # "idle"
    /\ m # filter_mode
    /\ filter_mode' = m
    /\ selected' = DefaultSelection(roadkill_df, m)
    /\ \E run \in {ScriptRun(roadkill_df, ic_locations, route_geometries, m, selected')} :
           Shown(run)
    /\ UNCHANGED <<roadkill_df, varsN, varsR, varsD, varsP>>

(* a selectbox of the single mode changed *)
SelectBox(a, choice) ==
    /\ view # "idle"
    /\ filter_mode = "single"
    /\ choice # selected[a]
    /\ selected' = [selected EXCEPT ![a] = choice]
    /\ \E run \in {ScriptRun(roadkill_df, ic_locations, route_geometries, filter_mode,
                             selected')} :
           Shown(run)
    /\ UNCHANGED <<roadkill_df, filter_mode, varsN, varsR, varsD, varsP>>

(* a multiselect of the multi mode changed: one option added or removed *)
MultiSelect(a, v) ==
    /\ view # "idle"
    /\ filter_mode = "multi"
    /\ selected' = [selected EXCEPT ![a] = IF v \in @ THEN @ \ {v} ELSE @ \cup {v}]
    /\ \E run \in {ScriptRun(roadkill_df, ic_locations, route_geometries, filter_mode,
                             selected')} :
           Shown(run)
    /\ UNCHANGED <<roadkill_df, filter_mode, varsN, varsR, varsD, varsP>>

Next ==
    \/ \E m \in {"single", "multi"} : SetFilterMode(m)
    \/ \E a \in Attrs : \E v \in Options(roadkill_df, a) : SelectBox(a, <<v>>)
    \/ \E a \in Attrs : SelectBox(a, <<>>)
    \/ \E a \in Attrs : \E v \in Options(roadkill_df, a) : MultiSelect(a, v)

Spec == Init /\ [][Next]_vars

-----------------------------------------------------------------------------
(* A session of roadkill-map.py: the script runs once after load_data and *)
(* once more for every change of a filter widget.                          *)

Hitachi == <<26085, 31435>>

SegmentRow(start_IC, end_IC, geometry) ==
    [start_IC |-> start_IC, end_IC |-> end_IC, geometry |-> geometry]

(* rows of the segment shapefile: a segment, its reverse, a third one, one without geometry *)
SegmentPool ==
    << SegmentRow(Mito \o IC, Naka \o FullwidthIC, <<0, 1>>),
       SegmentRow(Naka \o IC, Mito \o IC, <<0, 1>>),
       SegmentRow(Naka \o IC, Hitachi \o IC, <<1, 2>>),
       SegmentRow(Mito \o IC, Naka \o IC, NoneValue) >>

MaxSegments == 2

SegmentDatasets ==
    {Pick(SegmentPool, I, 1) : I \in {J \in SUBSET DOMAIN SegmentPool : Cardinality(J) <= MaxSegments}}

PrecutRow(route, section, weather, length_km) ==
    [official |-> Tohoku \o Jidoshado, route |-> route, section |-> section,
     direction |-> "nobori", weather |-> weather, animal |-> "tanuki", month |-> 4,
     hour |-> 0, day |-> "getsu", length_km |-> length_km]

MitoNakaSpaced == Mito \o IC \o <<SPACE, SEPARATOR>> \o Naka \o IC

PrecutPool ==
    << PrecutRow(Tohoku \o <<DOU>>, MitoNaka, Hare, 2),
       PrecutRow(Tohoku \o <<DOU>>, MitoNakaFullwidth, Ame, 3),
       PrecutRow(Joban \o <<DOU>>, NakaMito, Hare, 0),
       PrecutRow(Tohoku \o <<DOU>>, MitoNakaSpaced, Hare, 2),
       PrecutRow(Tohoku \o <<DOU>>, MitoNaka, Hare, NaN) >>

PrecutDatasets ==
    {Pick(PrecutPool, I, 1) : I \in {J \in SUBSET DOMAIN PrecutPool : Cardinality(J) <= MaxRecords}}

ShownPrecut(run) ==
    /\ filtered_df' = run.filtered_df
    /\ map_gdf' = run.map_gdf
    /\ max_density' = run.max_density
    /\ view' = run.view

InitP ==
    /\ IdleN
    /\ IdleR
    /\ IdleD
    /\ IdleIdx
    /\ map_df = <<>>
    /\ \E csv_rows \in PrecutDatasets : roadkill_df = LoadIncidents(csv_rows)
    /\ \E shp_rows \in SegmentDatasets : sections_gdf = LoadSections(shp_rows)
    /\ filter_mode = "single"
    /\ selected = DefaultSelectionPrecut(roadkill_df, "single")
    /\ \E run \in {ScriptRunPrecut(roadkill_df, sections_gdf, filter_mode, selected)} :
           /\ filtered_df = run.filtered_df
           /\ map_gdf = run.map_gdf
           /\ max_density = run.max_density
           /\ view = run.view

(* st.sidebar.radio("フィルタの選択方法", ...) changed *)
SetFilterModePrecut(m) ==
    /\ view # "idle"
    /\ m # filter_mode
    /\ filter_mode' = m
    /\ selected' = DefaultSelectionPrecut(roadkill_df, m)
    /\ \E run \in {ScriptRunPrecut(roadkill_df, sections_gdf, m, selected')} :
           ShownPrecut(run)
    /\ UNCHANGED <<roadkill_df, sections_gdf, map_df, varsIdx, varsN, varsR, varsD>>

(* a selectbox of the single mode changed *)
SelectBoxPrecut(a, choice) ==
    /\ view # "idle"
    /\ filter_mode = "single"
    /\ choice # selected[a]
    /\ selected' = [selected EXCEPT ![a] = choice]
    /\ \E run \in {ScriptRunPrecut(roadkill_df, sections_gdf, filter_mode, selected')} :
           ShownPrecut(run)
    /\ UNCHANGED <<roadkill_df, sections_gdf, map_df, filter_mode, varsIdx, varsN, varsR, varsD>>

(* a multiselect of the multi mode changed: one option added or removed *)
MultiSelectPrecut(a, v) ==
    /\ view # "idle"
    /\ filter_mode = "multi"
    /\ selected' = [selected EXCEPT ![a] = IF v \in @ THEN @ \ {v} ELSE @ \cup {v}]
    /\ \E run \in {ScriptRunPrecut(roadkill_df, sections_gdf, filter_mode, selected')} :
           ShownPrecut(run)
    /\ UNCHANGED <<roadkill_df, sections_gdf, map_df, filter_mode, varsIdx, varsN, varsR, varsD>>

NextP ==
    \/ \E m \in {"single", "multi"} : SetFilterModePrecut(m)
    \/ \E a \in Attrs : \E v \in OptionsPrecut(roadkill_df, a) : SelectBoxPrecut(a, <<v>>)
    \/ \E a \in Attrs : SelectBoxPrecut(a, <<>>)
    \/ \E a \in Attrs : \E v \in OptionsPrecut(roadkill_df, a) : MultiSelectPrecut(a, v)

SpecP == InitP /\ [][NextP]_vars

-----------------------------------------------------------------------------
(* The density of one segment, for a count and a length. *)

MaxCount == 4
MaxLengthKm == 4

Lengths == ((-1)..MaxLengthKm) \cup {NaN}

InitD ==
    /\ IdleP
    /\ IdleN
    /\ IdleR
    /\ IdleIdx
    /\ IdleS
    /\ d_count \in 0..MaxCount
    /\ d_length \in Lengths
    /\ d_variant \in {"app", "precut"}
    /\ per_km = Zero
    /\ pcD = "row"

ComputeDensity ==
    /\ pcD = "row"
    /\ per_km' = IF d_variant = "app" THEN Density(d_count, d_length)
                 ELSE DensityPrecut(d_count, d_length)
    /\ pcD' = "done"
    /\ UNCHANGED <<d_count, d_length, d_variant, varsN, varsR, varsIdx, varsS, varsP>>

NextD == ComputeDensity

SpecD == InitD /\ [][NextD]_vars

-----------------------------------------------------------------------------
(* Normalising a name, then normalising the result again. *)

MaxNameLen == 4

(* space, ideographic space, C, I, S, full-width I, 道, 東 *)
NameAlphabet == {SPACE, IDEOGRAPHIC_SPACE, 67, 73, 83, 65321, DOU, 26481}

RECURSIVE TextsUpTo(_)
TextsUpTo(n) ==
    IF n = 0 THEN {<<>>}
    ELSE LET shorter == TextsUpTo(n - 1)
         IN  shorter \cup {Append(s, c) : s \in {t \in shorter : Len(t) = n - 1}, c \in NameAlphabet}

NameInputs == TextsUpTo(MaxNameLen) \cup NonText

IsText(r) == \A i \in 1..Len(r) : r[i] >= 0

InitN ==
    /\ IdleP
    /\ IdleIdx
    /\ IdleR
    /\ IdleS
    /\ IdleD
    /\ name \in NameInputs
    /\ mode \in Modes
    /\ pcN = "input"
    /\ out1 = <<>>
    /\ out2 = <<>>

NormalizeOnce ==
    /\ pcN = "input"
    /\ out1' = normalize(name, mode)
    /\ pcN' = "once"
    /\ UNCHANGED <<name, mode, out2, varsIdx, varsR, varsS, varsD, varsP>>

NormalizeAgain ==
    /\ pcN = "once"
    /\ out2' = normalize(out1, mode)
    /\ pcN' = "twice"
    /\ UNCHANGED <<name, mode, out1, varsIdx, varsR, varsS, varsD, varsP>>

NextN == NormalizeOnce \/ NormalizeAgain

SpecN == InitN /\ [][NextN]_vars

-----------------------------------------------------------------------------
(* Properties of the normaliser (SpecN). *)

(* C1: normalising twice gives the same result as normalising once, for   *)
(* every text and each of the modes ROUTE, PLACE and the pre-cut variant. *)
C1_Idempotent == pcN = "twice" => out2 = out1

(* C2: normalize returns text for every input and either mode, and the    *)
(* empty string for an input that is null or not text.                     *)
C2_Total ==
    pcN \in {"once", "twice"} =>
        /\ IsText(out1)
        /\ (pcN = "twice" => IsText(out2))
        /\ (name \in NonText => out1 = <<>>)

C2_Witness == pcN = "once" /\ name = NoneValue /\ mode = "PLACE" /\ out1 = <<>>

(* the text after the width fold of step 1 *)
Folded(v) == ReplaceIdeographicSpace(Translate(v))

(* C11: in ROUTE mode a folded text that ends with the road character     *)
(* loses that one trailing character and nothing else but outer           *)
(* whitespace; a text that does not end with it keeps every road           *)
(* character.                                                              *)
C11_RouteStripsOneCharacter ==
    (pcN \in {"once", "twice"} /\ mode = "ROUTE" /\ IsStr(name)) =>
        out1 = IF EndsWith(Folded(name), <<DOU>>)
               THEN Strip(SubSeq(Folded(name), 1, Len(Folded(name)) - 1))
               ELSE Strip(Folded(name))

(* a configured designator, in either spelling, occurs in the folded text *)
HasDesignator(s) ==
    \E k \in DOMAIN suffixes : Contains(Folded(s), Folded(suffixes[k]))

(* C12: in PLACE mode a name made of a designator-free name b and one     *)
(* configured designator d, at the end of b or anywhere else in it,        *)
(* normalises to what b alone normalises to.                               *)
C12_PlaceStripsEveryDesignator ==
    (pcN \in {"once", "twice"} /\ mode = "PLACE" /\ IsStr(name)) =>
        \A k \in DOMAIN suffixes :
            \A i \in 0..(Len(name) - Len(suffixes[k])) :
                LET d == suffixes[k]
                    b == SubSeq(name, 1, i) \o SubSeq(name, i + Len(d) + 1, Len(name))
                IN  (SubSeq(name, i + 1, i + Len(d)) = d /\ ~HasDesignator(b)) =>
                        out1 = normalize_name(b, FALSE)

-----------------------------------------------------------------------------
(* Properties of the resolver (SpecR, SpecRoute). *)

Done == pcR = "done"

(* the route geometry the row was resolved against *)
TargetGeom == RouteGeometryGet(route_geometries, res.official)

(* a candidate's distance to the route geometry in metres: degrees x 111000 *)
ApproxMetres(p, geom) == (Distance(p, geom) * DEGREE_TO_M) \div GridPerDegree

Filtered == Done /\ res.at \in {"no_valid", "no_pair", "appended"}

(* C6: a pair of candidates at the identical coordinate is never chosen,  *)
(* and when every surviving pair is such a pair (also when it is the only *)
(* pair) the section fails to resolve and no segment is output for it.    *)
C6_ZeroDistanceExcluded ==
    Done =>
        /\ (res.best_pair # NoneValue => res.best_pair[1] # res.best_pair[2])
        /\ (/\ res.valid_starts # <<>>
            /\ res.valid_ends # <<>>
            /\ \A p \in Range(res.valid_starts), q \in Range(res.valid_ends) : p = q)
           => (res.at = "no_pair" /\ res.best_pair = NoneValue)

C6_Witness ==
    /\ Done
    /\ res.at = "no_pair"
    /\ Len(res.valid_starts) = 1
    /\ Len(res.valid_ends) = 1
    /\ res.valid_starts[1] = res.valid_ends[1]
    /\ row.start_norm # row.end_norm

(* C7: a candidate survives the plausibility filter exactly when its      *)
(* distance to the resolved route geometry, degrees x 111000, is strictly *)
(* below 3000 m; a candidate at exactly 3000 m is excluded.                *)
C7_ThresholdStrict ==
    Filtered =>
        LET near(p) == ApproxMetres(p, TargetGeom) < DISTANCE_THRESHOLD_M
        IN  /\ res.valid_starts = SelectSeq(IcLocationsGet(ic_locations, row.start_norm), near)
            /\ res.valid_ends = SelectSeq(IcLocationsGet(ic_locations, row.end_norm), near)
            /\ \A p \in Range(res.valid_starts) \cup Range(res.valid_ends) :
                   ApproxMetres(p, TargetGeom) # DISTANCE_THRESHOLD_M

C7_Witness ==
    /\ Done
    /\ res.at = "appended"
    /\ \E p \in Range(IcLocationsGet(ic_locations, row.start_norm)) :
           /\ ApproxMetres(p, TargetGeom) = DISTANCE_THRESHOLD_M
           /\ p \notin Range(res.valid_starts)
    /\ \E p \in Range(res.valid_starts) :
           /\ ApproxMetres(p, TargetGeom) > 0
           /\ ApproxMetres(p, TargetGeom) < DISTANCE_THRESHOLD_M

(* the candidates of a label that lie within the threshold of the resolved route *)
NearCandidates(label) ==
    {p \in Range(IcLocationsGet(ic_locations, label)) :
        ApproxMetres(p, TargetGeom) < DISTANCE_THRESHOLD_M}

(* C19: the start point of an output segment is a NameIndex candidate of  *)
(* the normalised start label within the threshold of the resolved route, *)
(* its end point is such a candidate of the normalised end label, and a   *)
(* section with no such candidate for either label gives no segment.      *)
C19_EndpointsSound ==
    (Done /\ res.at \notin {"no_route", "no_geometry"}) =>
        /\ res.at = "appended" =>
               /\ res.best_pair[1] \in NearCandidates(row.start_norm)
               /\ res.best_pair[2] \in NearCandidates(row.end_norm)
        /\ (NearCandidates(row.start_norm) = {} \/ NearCandidates(row.end_norm) = {}) =>
               res.at # "appended"

C19_Witness ==
    /\ Done
    /\ res.at = "appended"
    /\ \E p \in Range(IcLocationsGet(ic_locations, row.start_norm)) :
           p \notin NearCandidates(row.start_norm)
    /\ \E p \in Range(IcLocationsGet(ic_locations, row.end_norm)) :
           p \notin NearCandidates(row.end_norm)
    /\ res.best_pair[1] \in NearCandidates(row.start_norm)
    /\ res.best_pair[2] \in NearCandidates(row.end_norm)

(* C8: the chosen pair has the least distance among the pairs of          *)
(* surviving candidates at positive distance, and among the pairs at that *)
(* least distance it is the first of the cross product: the one with the  *)
(* earliest start candidate and, for that start, the earliest end.        *)
C8_NearestPairFirstOnTies ==
    (Done /\ res.at \in {"no_pair", "appended"}) =>
        LET S == res.valid_starts
            E == res.valid_ends
            d(i, j) == haversine(S[i], E[j])
            Pos == {ij \in (DOMAIN S) \X (DOMAIN E) : d(ij[1], ij[2]) > 0}
            before(a, b) == a[1] < b[1] \/ (a[1] = b[1] /\ a[2] <= b[2])
        IN  IF Pos = {} THEN res.best_pair = NoneValue
            ELSE \E w \in Pos :
                    /\ res.best_pair = <<S[w[1]], E[w[2]]>>
                    /\ \A o \in Pos : d(w[1], w[2]) <= d(o[1], o[2])
                    /\ \A o \in Pos : d(o[1], o[2]) = d(w[1], w[2]) => before(w, o)

C8_Witness ==
    /\ Done
    /\ res.at = "appended"
    /\ Len(res.valid_starts) = 2
    /\ Len(res.valid_ends) = 1
    /\ res.best_pair = <<res.valid_starts[1], res.valid_ends[1]>>
    /\ res.valid_starts[1] # res.valid_starts[2]
    /\ haversine(res.valid_starts[1], res.valid_ends[1])
         = haversine(res.valid_starts[2], res.valid_ends[1])

(* C9: a section is resolved against key k only if the ROUTE-normalised   *)
(* route name is contained in k and k is the first such key of the        *)
(* RouteIndex; it is dropped at the route step exactly when no key of the *)
(* RouteIndex contains the normalised route name.                          *)
C9_RouteResolution ==
    Done =>
        LET n == normalize_name(row.route, TRUE)
            keys == RouteKeys(route_geometries)
            hits == {i \in DOMAIN keys : Contains(keys[i], n)}
        IN  /\ (res.at # "no_route" =>
                   \E i \in hits : res.official = keys[i] /\ \A j \in hits : i <= j)
            /\ (res.at = "no_route" <=> hits = {})

(* the keys of the RouteIndex that contain the normalised route text of the row *)
ContainingKeys ==
    {k \in Range(RouteKeys(route_geometries)) : Contains(k, normalize_name(row.route, TRUE))}

(* C21: the keys of the RouteIndex are iterated in ascending code-point    *)
(* order, whatever the order of the rows of the route reference, and the   *)
(* key matched to an incident route name is the smallest key that          *)
(* contains the normalised name.                                           *)
C21_FirstMatchIsSmallestKey ==
    pcR # "idle" =>
        /\ \A i, j \in DOMAIN route_geometries :
               i < j => LexLess(route_geometries[i].key, route_geometries[j].key)
        /\ Done =>
               IF ContainingKeys = {} THEN res.official = NoneValue
               ELSE /\ res.official \in ContainingKeys
                    /\ \A o \in ContainingKeys \ {res.official} : LexLess(res.official, o)

C21_Witness ==
    /\ Done
    /\ Cardinality(ContainingKeys) >= 2
    /\ res.official \in ContainingKeys
    /\ \A o \in ContainingKeys \ {res.official} : LexLess(res.official, o)

(* C10: when the reference has a route named X + 自動車道 and the incident *)
(* route text is X + 道, for a route name X, neither normalised name keeps *)
(* its trailing 道, the normalised incident name is contained in the       *)
(* normalised reference name, and the row is matched to a key of the      *)
(* RouteIndex that contains it instead of being dropped at the route step.*)
RouteStems == {Tohoku, Doto}

C10_AbbreviationResolves ==
    \A X \in RouteStems :
        (/\ Done
         /\ row.route = X \o <<DOU>>
         /\ normalize_name(X \o Jidoshado, TRUE) \in Range(RouteKeys(route_geometries)))
        => /\ ~EndsWith(normalize_name(X \o <<DOU>>, TRUE), <<DOU>>)
           /\ ~EndsWith(normalize_name(X \o Jidoshado, TRUE), <<DOU>>)
           /\ Contains(normalize_name(X \o Jidoshado, TRUE), normalize_name(X \o <<DOU>>, TRUE))
           /\ res.at # "no_route"
           /\ Contains(res.official, normalize_name(row.route, TRUE))

C10_Witness ==
    /\ Done
    /\ row.route = Tohoku \o <<DOU>>
    /\ res.official = normalize_name(Tohoku \o Jidoshado, TRUE)
    /\ res.at = "appended"

-----------------------------------------------------------------------------
(* Properties of a session of app.py (Spec) and of the density (SpecD). *)

(* the normalised (route, start, end) key of a route text and a section label *)
NormKey(r) ==
    <<normalize_name(r.route, TRUE),
      normalize_name(SplitColumn(r.section, 0), FALSE),
      normalize_name(SplitColumn(r.section, 1), FALSE)>>

CountOfKey(df, key) == Cardinality({i \in DOMAIN df : KeyOf(df[i]) = key})

(* C3: the filtered records with one normalised (route, section) key are  *)
(* attributed to one output segment, whose count includes all of them,    *)
(* whatever the raw spelling of their route and section.                   *)
C3_OneSegmentPerNormalizedKey ==
    \A i \in DOMAIN filtered_df :
        LET segs == {j \in DOMAIN map_df : NormKey(map_df[j]) = NormKey(filtered_df[i])}
            same == {n \in DOMAIN filtered_df : NormKey(filtered_df[n]) = NormKey(filtered_df[i])}
        IN  /\ \A j, k \in segs : j = k
            /\ \A j \in segs : map_df[j].count = Cardinality(same)

(* C4: the count of every output segment is the number of filtered        *)
(* records with the segment's (route, section) key, no two segments have  *)
(* the same key, and when a filter change adds one record whose key       *)
(* already has a segment, that segment's count grows by one and the       *)
(* segments stay the same otherwise.                                       *)
C4_CountIsGroupSize ==
    \A i \in DOMAIN map_df :
        /\ map_df[i].count = CountOfKey(filtered_df, KeyOf(map_df[i]))
        /\ \A j \in DOMAIN map_df : KeyOf(map_df[j]) = KeyOf(map_df[i]) => j = i

Without(s, n) == SubSeq(s, 1, n - 1) \o SubSeq(s, n + 1, Len(s))

C4_OneMoreRecord ==
    \A n \in DOMAIN filtered_df' :
        (/\ filtered_df = Without(filtered_df', n)
         /\ \E i \in DOMAIN map_df : KeyOf(map_df[i]) = KeyOf(filtered_df'[n]))
        => /\ Len(map_df') = Len(map_df)
           /\ \A i \in DOMAIN map_df :
                 /\ KeyOf(map_df'[i]) = KeyOf(map_df[i])
                 /\ map_df'[i].count =
                        IF KeyOf(map_df[i]) = KeyOf(filtered_df'[n])
                        THEN map_df[i].count + 1 ELSE map_df[i].count

C4_CountPerKey == [](C4_CountIsGroupSize) /\ [][C4_OneMoreRecord]_vars

C4_Witness ==
    /\ view = "map"
    /\ filter_mode = "single"
    /\ Len(filtered_df) = 2
    /\ KeyOf(filtered_df[1]) = KeyOf(filtered_df[2])
    /\ Len(map_df) = 1
    /\ map_df[1].count = 2

(* C5: the density of a segment is count / length when the length is      *)
(* positive and 0 when the length is zero, negative or missing; it is     *)
(* never a quotient by zero.                                               *)
C5_DensityFloor ==
    pcD = "done" =>
        /\ per_km.den # 0
        /\ IF d_length # NaN /\ d_length > 0
           THEN per_km.num * d_length = d_count * per_km.den
           ELSE per_km = Zero

C5_Witness ==
    /\ pcD = "done"
    /\ d_length = 0
    /\ d_count > 0
    /\ per_km = Zero

(* the loop body of get_map_data leaves the row of section_counts out *)
Failing(r) == ResolveRow(r, ic_locations, route_geometries).at # "appended"

(* the records of the current view without those of one section *)
WithoutSection(df, key) == SelectSeq(df, LAMBDA r : KeyOf(r) # key)

(* C13: a section that fails to resolve is left out of the output, the    *)
(* run still ends with a view, and the segments of all other sections     *)
(* (endpoints and counts) are those of the same batch without the         *)
(* failing section.                                                        *)
C13_FailuresAreIndependent ==
    /\ view \in {"map", "no_segments", "no_data"}
    /\ view \in {"map", "no_segments"} =>
           LET sc == SectionCounts(filtered_df)
           IN  \A k \in DOMAIN sc :
                   Failing(sc[k]) =>
                       /\ \A i \in DOMAIN map_df :
                              <<map_df[i].route, map_df[i].section>> # KeyOf(sc[k])
                       /\ map_df =
                              WithDensity(get_map_data(
                                  SectionCounts(WithoutSection(filtered_df, KeyOf(sc[k]))),
                                  ic_locations, route_geometries))

C13_Witness ==
    /\ view = "map"
    /\ \E k \in DOMAIN SectionCounts(filtered_df) : Failing(SectionCounts(filtered_df)[k])

(* the label carries the separator glyph *)
HasSeparator(label) == \E i \in DOMAIN label : label[i] = SEPARATOR

(* C14: a section label without the separator gets the PLACE-normalised   *)
(* whole label as its start and the empty string as its end, alone in     *)
(* the batch or next to labels that carry the separator, and the run      *)
(* ends with a view.                                                       *)
C14_MalformedSectionLabel ==
    view # "idle" =>
        /\ view \in {"map", "no_segments", "no_data"}
        /\ LET sc == SectionCounts(filtered_df)
           IN  \A k \in DOMAIN sc :
                   ~HasSeparator(sc[k].section) =>
                       /\ sc[k].start_norm = normalize_name(sc[k].section, FALSE)
                       /\ sc[k].end_norm = <<>>

C14_Witness ==
    /\ view = "map"
    /\ \E i, k \in DOMAIN filtered_df :
           /\ ~HasSeparator(filtered_df[i].section)
           /\ HasSeparator(filtered_df[k].section)

(* the densities of all sections of the unfiltered incidents *)
AllDensities ==
    {Density(CountOfKey(roadkill_df, KeyOf(roadkill_df[i])),
             Group(roadkill_df, KeyOf(roadkill_df[i]))[1].length_km) : i \in DOMAIN roadkill_df}

(* d is the largest element of the set ds of densities *)
IsLargest(d, ds) == d \in ds /\ \A e \in ds : DensityLeq(e, d)

C18_IndexNeverMutated ==
    /\ [](view # "idle" =>
             /\ ic_locations = BuildIcLocations(SessionIcRows)
             /\ route_geometries = BuildRouteGeometries(SessionRouteRows))
    /\ [][ic_locations' = ic_locations /\ route_geometries' = route_geometries]_vars

C18_Witness ==
    /\ view = "map"
    /\ filter_mode = "multi"
    /\ \E k \in DOMAIN SectionCounts(filtered_df) :
           /\ SectionCounts(filtered_df)[k].end_norm \notin DOMAIN ic_locations
           /\ ResolveRow(SectionCounts(filtered_df)[k], ic_locations, route_geometries).at
                  = "no_candidates"
    /\ ic_locations = BuildIcLocations(SessionIcRows)

-----------------------------------------------------------------------------
(* Properties of the pre-cut variant (SpecP). *)

(* the reference segments that have a geometry, in the order of the shapefile *)
WithGeometry == SelectSeq(sections_gdf, LAMBDA r : r.geometry # NoneValue)

(* the filtered incidents whose key is the given one *)
IncidentsOfKey(key) == SelectSeq(filtered_df, LAMBDA r : r.section_norm = key)

(* no incident of the current filter carries either key of the segment *)
NoIncidents(seg) ==
    /\ IncidentsOfKey(seg.section_norm_key_1) = <<>>
    /\ IncidentsOfKey(seg.section_norm_key_2) = <<>>

(* C15: on every filter setting the output holds each reference segment   *)
(* that has a geometry exactly once, and a segment whose two keys match   *)
(* no incident group is kept with count 0 and density 0.                   *)
C15_BaseMapComplete ==
    view \in {"map", "failed"} =>
        /\ Len(map_gdf) = Len(WithGeometry)
        /\ \A i \in DOMAIN map_gdf :
               /\ map_gdf[i].start_IC = WithGeometry[i].start_IC
               /\ map_gdf[i].end_IC = WithGeometry[i].end_IC
               /\ map_gdf[i].geometry = WithGeometry[i].geometry
               /\ NoIncidents(map_gdf[i]) =>
                      (map_gdf[i].count = 0 /\ map_gdf[i].per_km = Zero)

C15_Witness ==
    /\ view = "map"
    /\ \E i, k \in DOMAIN map_gdf :
           /\ NoIncidents(map_gdf[i]) /\ map_gdf[i].count = 0
           /\ ~NoIncidents(map_gdf[k]) /\ map_gdf[k].count > 0

(* C16: a segment takes count, length and display name from the incident  *)
(* group keyed start〜end when there is one, otherwise from the group      *)
(* keyed end〜start when there is one.                                      *)
C16_BothOrderingsFirstWins ==
    view = "map" =>
        \A i \in DOMAIN map_gdf :
            LET first == IncidentsOfKey(map_gdf[i].section_norm_key_1)
                second == IncidentsOfKey(map_gdf[i].section_norm_key_2)
                from == IF first # <<>> THEN first ELSE second
            IN  from # <<>> =>
                    /\ map_gdf[i].count = Len(from)
                    /\ map_gdf[i].length_km = from[1].length_km
                    /\ map_gdf[i].route = from[1].route

C16_Witness ==
    /\ view = "map"
    /\ \E i \in DOMAIN map_gdf :
           LET first == IncidentsOfKey(map_gdf[i].section_norm_key_1)
               second == IncidentsOfKey(map_gdf[i].section_norm_key_2)
           IN  /\ first # <<>>
               /\ second # <<>>
               /\ first[1].length_km # second[1].length_km
               /\ first[1].route # second[1].route
               /\ map_gdf[i].route = first[1].route

(* C20: the key of an incident label A〜B is normalize(A), the separator  *)
(* and normalize(B), so that it equals the start〜end key of a reference  *)
(* segment whose normalised names are those of A and B.                    *)
C20_KeyFromSeparateLabels ==
    \A i \in DOMAIN roadkill_df :
        LET parts == Split(roadkill_df[i].section)
        IN  (view \in {"map", "failed"} /\ Len(parts) = 2) =>
                LET start == normalize_name_precut(parts[1])
                    end == normalize_name_precut(parts[2])
                IN  /\ roadkill_df[i].section_norm = start \o <<SEPARATOR>> \o end
                    /\ \A k \in DOMAIN sections_gdf :
                           (sections_gdf[k].start_norm = start /\ sections_gdf[k].end_norm = end)
                               => roadkill_df[i].section_norm = sections_gdf[k].section_norm_key_1

(* the sum of the counts of the output segments from the k-th on *)
RECURSIVE CountSumFrom(_, _)
CountSumFrom(m, k) == IF k > Len(m) THEN 0 ELSE m[k].count + CountSumFrom(m, k + 1)

(* C22: on every filter setting the counts of the output segments add up  *)
(* to no more than the number of filtered incidents: no incident group is *)
(* attributed to two segments.                                             *)
C22_NoDoubleCounting ==
    view \in {"map", "failed"} => CountSumFrom(map_gdf, 1) <= Len(filtered_df)

=============================================================================
